---- MODULE Spec2Model ----
(***************************************************************************)
(* Model of classifier/classifiers-backup.py: the imbalance-aware sampler, *)
(* the accuracy metric, the per-epoch train/validation passes, the         *)
(* run_training epoch loop with its keep-best checkpoint and incremental   *)
(* log, and run_test with its confusion matrices.                          *)
(*                                                                         *)
(* Floating-point values are modelled as exact rationals <<num, den>> in   *)
(* lowest terms (den > 0); validation losses in the epoch loop are         *)
(* integers standing for the ordered loss values.                          *)
(***************************************************************************)
EXTENDS Integers, Sequences, FiniteSets, TLC

(* ------------------------------ bounds -------------------------------- *)
\* longest dataset handed to sampler (besides the 90/10 scenario)
MaxData == 2
\* longest prediction / label vector given to eval_metrics
MaxVec == 2
\* largest class index in the vectors given to eval_metrics
MaxLabel == 1
\* mixing coefficients lam are the multiples of 1/LamDen in [0, 1]
LamDen == 2
\* largest dataset run through one train / validation pass
MaxDataset == 3
\* largest configured epoch count of a run_training run
MaxEpochs == 8
\* validation losses of the decreasing-loss scenario start DecrBelow under best_loss
DecrBelow == 3
\* largest test split run_test goes through
MaxTest == 2
\* calls of run_test on one results file
MaxCalls == 2

(* ------------------------- program constants -------------------------- *)
\* balance_factor = 20
balance_factor == 20
\* range(5) / list(range(0,5)): the five class indices 0..4
NumClasses == 5
\* best_loss = 1000.0
BestLossInit == 1000
\* ... and epoch >= 5
WarmupEpochs == 5

Classes == 0 .. (NumClasses - 1)

(* --------------------------- exact rationals -------------------------- *)
RECURSIVE GCD(_, _)
GCD(a, b) == IF b = 0 THEN a ELSE GCD(b, a % b)

Abs(x) == IF x < 0 THEN 0 - x ELSE x

\* the rational n/d in lowest terms with a positive denominator; a zero
\* denominator gives what numpy's float division gives: inf <<1,0>>,
\* -inf <<-1,0>> or nan <<0,0>>
Rat(n, d) ==
    IF d = 0
    THEN <<IF n > 0 THEN 1 ELSE IF n < 0 THEN 0 - 1 ELSE 0, 0>>
    ELSE LET g == GCD(Abs(n), Abs(d))
             sgn == IF d < 0 THEN 0 - 1 ELSE 1
         IN  <<sgn * (n \div g), sgn * (d \div g)>>

RatInt(n) == <<n, 1>>
RatAdd(x, y) == Rat(x[1] * y[2] + y[1] * x[2], x[2] * y[2])
RatMul(x, y) == Rat(x[1] * y[1], x[2] * y[2])
RatDiv(x, y) == Rat(x[1] * y[2], x[2] * y[1])
RatSub(x, y) == RatAdd(x, Rat(0 - y[1], y[2]))
RatFinite(x) == x[2] > 0
RatEq(x, y) == RatFinite(x) /\ RatFinite(y) /\ x[1] * y[2] = y[1] * x[2]
RatLt(x, y) == RatFinite(x) /\ RatFinite(y) /\ x[1] * y[2] < y[1] * x[2]
RatPos(x) == RatFinite(x) /\ x[1] > 0
RatNonNeg(x) == RatFinite(x) /\ x[1] >= 0

\* the sum of s[lo..hi], split in halves to keep the evaluation shallow
RECURSIVE RatSumRange(_, _, _)
RatSumRange(s, lo, hi) ==
    IF lo > hi THEN RatInt(0)
    ELSE IF lo = hi THEN s[lo]
    ELSE LET mid == (lo + hi) \div 2
         IN  RatAdd(RatSumRange(s, lo, mid), RatSumRange(s, mid + 1, hi))

RatSum(s) == RatSumRange(s, 1, Len(s))

RECURSIVE SeqsUpTo(_, _)
\* all sequences over S of length 1..n
SeqsOfLen(S, n) == [1 .. n -> S]
SeqsUpTo(S, n) == IF n = 0 THEN {} ELSE SeqsOfLen(S, n) \cup SeqsUpTo(S, n - 1)

SetMin(S) == CHOOSE x \in S : \A y \in S : x <= y

(* ------------------------------ state --------------------------------- *)
VARIABLES
    select_classifier,  \* opt.select_classifier: 1 = entire leaf (joint), 2 = lesion spot
    data,               \* CoffeeLeavesDataset.data rows as [dis, sev]
    samples,            \* ImageFolder.samples targets (x[1] of every sample)
    samplesWeight,      \* weights handed to WeightedRandomSampler, <<>> before the call
    num_samples         \* second argument of WeightedRandomSampler

samplerVars == <<select_classifier, data, samples, samplesWeight, num_samples>>

VARIABLES
    y_pred,             \* eval_metrics arguments of the call under check
    y_true,
    y2_true,            \* None when mixup is not in use
    lam,
    acc_out             \* the value returned, NotCalled before the call

metricVars == <<y_pred, y_true, y2_true, lam, acc_out>>

VARIABLES
    p_clf,              \* "entire_leaf" (EntireLeafClf) or "lesion_spot" (LesionSpotClf)
    p_split,            \* "train" (train) or "validation" (validation)
    cuda,               \* torch.cuda.is_available()
    p_aug,              \* the data_augmentation argument of train
    output_std,         \* opt.output_std
    criterion,          \* the criterion argument
    dataset_len,        \* len(loader.dataset)
    batch_size,         \* opt.batch_size
    consumed,           \* examples the loader has yielded so far
    p_metrics,          \* train_metrics / val_metrics
    p_correct,            \* LesionSpotClf: correct
    p_total,              \* LesionSpotClf: total
    grad,               \* what the parameters' .grad holds: <<head, step>> pairs,
                        \* the loss of that head in that step was backpropagated
    losses,             \* the loss tensors the current iteration computed
    steps,              \* optimizer.step() calls so far
    seen,               \* per-batch figures of the batches yielded (history)
    p_pc                \* "idle", "loop" or "returned"

passVars == <<p_clf, p_split, cuda, p_aug, output_std, criterion, dataset_len, batch_size,
              consumed, p_metrics, p_correct, p_total, grad, losses, steps, seen,
              p_pc>>

VARIABLES
    t_clf,              \* whose run_training: "entire_leaf" or "lesion_spot"
    opt,                \* self.opt, the parsed configuration
    loss_env,           \* the validation losses the run meets: "any" or "decreasing"
    record,             \* the in-memory TrainingRecord
    best_loss,
    epoch,
    train_metrics,
    val_metrics,
    lr,                 \* param_group['lr'] of every group, in units of 0.0001
    model_state,        \* training passes the live model has been through
    checkpoint,         \* the .pth file
    logfile,            \* the .pkl file
    t_pc                \* position in run_training

trainVars == <<t_clf, opt, loss_env, record, best_loss, epoch, train_metrics, val_metrics,
               lr, model_state, checkpoint, logfile, t_pc>>

VARIABLES
    r_clf,              \* whose run_test: "entire_leaf" or "lesion_spot"
    test_len,           \* len(test_dataset)
    y_true_dis,         \* y_true_dis / y_true
    y_pred_dis,         \* y_pred_dis / y_pred
    y_true_sev,
    y_pred_sev,
    cm_dis,             \* the confusion matrix handed to plot_confusion_matrix
    cm_sev,
    results,            \* the lines of the results .csv file
    r_pc,               \* position in run_test
    calls               \* how many calls of run_test have returned

testVars == <<r_clf, test_len, y_true_dis, y_pred_dis, y_true_sev, y_pred_sev,
              cm_dis, cm_sev, results, r_pc, calls>>

(* ------------------------------ sampler ------------------------------- *)
\* 1 / ((targets_sum + balance_factor) / total)
JointWeightMut(targets_sum, total) ==
    RatDiv(RatInt(1), RatInt(targets_sum + balance_factor))
JointWeight(targets_sum, total) ==
    RatDiv(RatInt(1), RatDiv(RatInt(targets_sum + balance_factor), RatInt(total)))

\* 1 / (len(idx) / total)
SingleWeightMut(n, total) ==
    RatDiv(RatInt(1), RatDiv(RatInt(n + balance_factor), RatInt(total)))
SingleWeight(n, total) ==
    RatDiv(RatInt(1), RatDiv(RatInt(n), RatInt(total)))

\* for d in range(5): for s in range(5): the k-th cell visited, k = 0..24
JointCellsMut == (NumClasses - 1) * NumClasses
JointCells == NumClasses * NumClasses

\* the body of the two loops for the k-th cell: samplesWeight[idx] = ...
JointCell(w, rows, k) ==
    LET d == k \div NumClasses
        s == k % NumClasses
        idx == {i \in DOMAIN rows : rows[i].dis = d /\ rows[i].sev = s}
        targets_sum == Cardinality(idx)
        total == Len(rows)
    IN  [i \in DOMAIN w |-> IF i \in idx THEN JointWeight(targets_sum, total) ELSE w[i]]

RECURSIVE JointLoop(_, _, _)
JointLoop(w, rows, k) ==
    IF k >= JointCells THEN w ELSE JointLoop(JointCell(w, rows, k), rows, k + 1)

\* for t in np.unique(targets): ascending over the distinct targets
RECURSIVE SingleLoop(_, _, _)
SingleLoop(w, targets, todo) ==
    IF todo = {} THEN w
    ELSE LET t == SetMin(todo)
             idx == {i \in DOMAIN targets : targets[i] = t}
             total == Len(targets)
         IN  SingleLoop([i \in DOMAIN w |->
                            IF i \in idx THEN SingleWeight(Cardinality(idx), total) ELSE w[i]],
                        targets, todo \ {t})

Zeros(n) == [i \in 1 .. n |-> RatInt(0)]

\* samplesWeight = samplesWeight / sum(samplesWeight)
NormalizeMut(w) == w
Normalize(w) == LET total == RatSum(w) IN [i \in DOMAIN w |-> RatDiv(w[i], total)]

\* the weight vector before normalisation
RawWeights(sel, rows, targets) ==
    IF sel = 1
    THEN JointLoop(Zeros(Len(rows)), rows, 0)
    ELSE SingleLoop(Zeros(Len(targets)), targets, {targets[i] : i \in DOMAIN targets})

Rows == [dis : Classes, sev : Classes]
\* rows of three cells, for the longer joint datasets in which cells of
\* different sizes meet
ScenarioRows == {[dis |-> 0, sev |-> 0], [dis |-> 1, sev |-> 2], [dis |-> 4, sev |-> 4]}

\* 100 single-label samples, 90 of class 0 then 10 of class 1
Scenario9010 == [i \in 1 .. 100 |-> IF i <= 90 THEN 0 ELSE 1]

\* sampler(dataset, opt)
Sampler ==
    /\ samplesWeight = <<>>
    /\ samplesWeight' = Normalize(RawWeights(select_classifier, data, samples))
    /\ num_samples' = Len(samplesWeight')
    /\ UNCHANGED <<select_classifier, data, samples>>
    /\ UNCHANGED <<metricVars, passVars, trainVars, testVars>>

(* --------------------------- eval_metrics ----------------------------- *)
\* Python's None; class indices are never negative
None == <<0 - 1>>
NotCalled == <<0 - 2>>

\* sklearn accuracy_score(y_true, y_pred): the fraction of positions that agree
accuracy_score(yt, yp) ==
    Rat(Cardinality({i \in DOMAIN yp : yt[i] = yp[i]}), Len(yp))

\* eval_metrics(metric, y_pred, y_true, y2_true=None, lam=None)
eval_metricsMut(metric, yp, yt, y2t, l) ==
    IF y2t = None
    THEN IF metric = "acc" THEN accuracy_score(yt, yp) ELSE None
    ELSE IF metric = "acc"
         THEN RatAdd(RatMul(l, accuracy_score(y2t, yp)),
                     RatMul(RatSub(RatInt(1), l), accuracy_score(yt, yp)))
         ELSE None
eval_metrics(metric, yp, yt, y2t, l) ==
    IF y2t = None
    THEN IF metric = "acc" THEN accuracy_score(yt, yp) ELSE None
    ELSE IF metric = "acc"
         THEN RatAdd(RatMul(l, accuracy_score(yt, yp)),
                     RatMul(RatSub(RatInt(1), l), accuracy_score(y2t, yp)))
         ELSE None

Lams == {Rat(k, LamDen) : k \in 0 .. LamDen}
LabelVals == 0 .. MaxLabel

\* one call eval_metrics('acc', y_pred, y_true, y2_true, lam)
EvalMetrics ==
    /\ acc_out = NotCalled
    /\ acc_out' = eval_metrics("acc", y_pred, y_true, y2_true, lam)
    /\ UNCHANGED <<y_pred, y_true, y2_true, lam>>

(* ---------------------- train / validation pass ---------------------- *)
\* all permutations of 1..n (the random pairing of mixup_data)
Perms(n) == {f \in [1 .. n -> 1 .. n] : \A i, j \in 1 .. n : f[i] = f[j] => i = j}

\* per-batch loss values a criterion returns
PassLoss == {1, 2}
BatchSizes == {1, 2}
BinLabels == {0, 1}

\* criterion_train / criterion_val of run_training
CriterionTrainMut(aug) == IF aug = "mixup" THEN "CrossEntropyLoss" ELSE "KLDivLoss"
CriterionTrain(aug) == IF aug # "bc+" THEN "CrossEntropyLoss" ELSE "KLDivLoss"
CriterionVal == "CrossEntropyLoss"

NextBatchLen == IF dataset_len - consumed < batch_size THEN dataset_len - consumed ELSE batch_size

ZeroMetrics == [loss |-> RatInt(0), dis_acc |-> RatInt(0), sev_acc |-> RatInt(0), acc |-> RatInt(0)]
ZeroSeen == [nb |-> 0, accN_dis |-> RatInt(0), accN_sev |-> RatInt(0),
             acc_dis |-> RatInt(0), acc_sev |-> RatInt(0),
             lossN |-> RatInt(0), loss |-> RatInt(0)]

\* the loss figure of a batch, by output_std
ELBatchLoss(std, loss_dis, loss_sev) ==
    IF std = "multitask" THEN RatDiv(RatInt(loss_dis + loss_sev), RatInt(2))
    ELSE IF std = "disease" THEN RatInt(loss_dis)
    ELSE RatInt(loss_sev)

\* no iteration has computed a loss yet
NoLosses == [dis |-> 0, sev |-> 0]

\* model.zero_grad(): every parameter's .grad is cleared
ZeroGradMut(g) == g
ZeroGrad(g) == {}

\* .backward() adds the gradient of the given heads' losses to .grad
Backward(g, heads, step) == g \cup {<<h, step>> : h \in heads}

\* the heads whose loss .backward() is called on
BackwardHeads(std) ==
    IF std = "multitask" THEN {"dis", "sev"}
    ELSE IF std = "disease" THEN {"dis"}
    ELSE {"sev"}

\* the history of what the loader yielded: batch accuracies and losses
SeenAfter(n, a_dis, a_sev, l) ==
    [nb |-> seen.nb + 1,
     accN_dis |-> RatAdd(seen.accN_dis, RatMul(a_dis, RatInt(n))),
     accN_sev |-> RatAdd(seen.accN_sev, RatMul(a_sev, RatInt(n))),
     acc_dis |-> RatAdd(seen.acc_dis, a_dis),
     acc_sev |-> RatAdd(seen.acc_sev, a_sev),
     lossN |-> RatAdd(seen.lossN, RatMul(l, RatInt(n))),
     loss |-> RatAdd(seen.loss, l)]

\* if torch.cuda.is_available(): metrics[key] += eval_metrics(...) * len(images)
CudaGuardedAdd(old, acc, n) ==
    IF cuda THEN RatAdd(old, RatMul(acc, RatInt(n))) ELSE old

\* one iteration of the batch loop of EntireLeafClf.train
ELTrainStep ==
    /\ p_pc = "loop" /\ p_clf = "entire_leaf" /\ p_split = "train"
    /\ consumed < dataset_len
    /\ LET n == NextBatchLen IN
       \E labels_dis, labels_sev, pred_dis, pred_sev \in SeqsOfLen(BinLabels, n),
          index \in IF p_aug = "mixup" THEN Perms(n) ELSE {[i \in 1 .. n |-> i]},
          l \in IF p_aug = "mixup" THEN Lams ELSE {None},
          loss_dis, loss_sev \in PassLoss :
          LET labels_dis_b == IF p_aug = "mixup"
                              THEN [i \in 1 .. n |-> labels_dis[index[i]]] ELSE None
              labels_sev_b == IF p_aug = "mixup"
                              THEN [i \in 1 .. n |-> labels_sev[index[i]]] ELSE None
              batch_loss == ELBatchLoss(output_std, loss_dis, loss_sev)
              acc_dis == eval_metrics("acc", pred_dis, labels_dis, labels_dis_b, l)
              acc_sev == eval_metrics("acc", pred_sev, labels_sev, labels_sev_b, l)
          IN  /\ losses' = [dis |-> loss_dis, sev |-> loss_sev]
              /\ grad' = Backward(ZeroGrad(grad), BackwardHeads(output_std), steps + 1)
              /\ steps' = steps + 1
              /\ p_metrics' =
                    [p_metrics EXCEPT
                       !.loss = RatAdd(@, RatMul(batch_loss, RatInt(n))),
                       !.dis_acc = CudaGuardedAdd(@, acc_dis, n),
                       !.sev_acc = CudaGuardedAdd(@, acc_sev, n)]
              /\ seen' = SeenAfter(n, acc_dis, acc_sev, batch_loss)
              /\ consumed' = consumed + n
    /\ UNCHANGED <<p_clf, p_split, cuda, p_aug, output_std, criterion, dataset_len,
                   batch_size, p_correct, p_total, p_pc>>

\* one iteration of the batch loop of EntireLeafClf.validation
ELValStep ==
    /\ p_pc = "loop" /\ p_clf = "entire_leaf" /\ p_split = "validation"
    /\ consumed < dataset_len
    /\ LET n == NextBatchLen IN
       \E labels_dis, labels_sev, pred_dis, pred_sev \in SeqsOfLen(BinLabels, n),
          loss_dis, loss_sev \in PassLoss :
          LET batch_loss == ELBatchLoss(output_std, loss_dis, loss_sev)
              acc_dis == eval_metrics("acc", pred_dis, labels_dis, None, None)
              acc_sev == eval_metrics("acc", pred_sev, labels_sev, None, None)
          IN  /\ p_metrics' =
                    [p_metrics EXCEPT
                       !.loss = RatAdd(@, RatMul(batch_loss, RatInt(n))),
                       !.dis_acc = CudaGuardedAdd(@, acc_dis, n),
                       !.sev_acc = CudaGuardedAdd(@, acc_sev, n)]
              /\ seen' = SeenAfter(n, acc_dis, acc_sev, batch_loss)
              /\ losses' = [dis |-> loss_dis, sev |-> loss_sev]
              /\ consumed' = consumed + n
    /\ UNCHANGED <<p_clf, p_split, cuda, p_aug, output_std, criterion, dataset_len,
                   batch_size, p_correct, p_total, grad, steps, p_pc>>

\* one iteration of the batch loop of LesionSpotClf.train
LSTrainStep ==
    /\ p_pc = "loop" /\ p_clf = "lesion_spot" /\ p_split = "train"
    /\ consumed < dataset_len
    /\ LET n == NextBatchLen IN
       \E labels, pred \in SeqsOfLen(BinLabels, n),
          index \in IF p_aug = "mixup" THEN Perms(n) ELSE {[i \in 1 .. n |-> i]},
          l \in IF p_aug = "mixup" THEN Lams ELSE {None},
          loss \in PassLoss :
          LET labels_b == IF p_aug = "mixup"
                          THEN [i \in 1 .. n |-> labels[index[i]]] ELSE None
              acc == eval_metrics("acc", pred, labels, labels_b, l)
              correct2 == CudaGuardedAdd(p_correct, acc, n)
              total2 == p_total + n
          IN  /\ losses' = [dis |-> loss, sev |-> 0]
              /\ grad' = Backward(ZeroGrad(grad), {"dis"}, steps + 1)
              /\ steps' = steps + 1
              /\ p_correct' = correct2
              /\ p_total' = total2
              /\ p_metrics' =
                    [p_metrics EXCEPT
                       !.loss = RatAdd(@, RatMul(RatInt(loss), RatInt(n))),
                       !.acc = RatDiv(RatMul(RatInt(100), correct2), RatInt(total2))]
              /\ seen' = SeenAfter(n, acc, RatInt(0), RatInt(loss))
              /\ consumed' = consumed + n
    /\ UNCHANGED <<p_clf, p_split, cuda, p_aug, output_std, criterion, dataset_len,
                   batch_size, p_pc>>

\* one iteration of the batch loop of LesionSpotClf.validation; its guard
\* `if torch.cuda.is_available:` tests the function object, which is always true
LSValStep ==
    /\ p_pc = "loop" /\ p_clf = "lesion_spot" /\ p_split = "validation"
    /\ consumed < dataset_len
    /\ LET n == NextBatchLen IN
       \E labels, pred \in SeqsOfLen(BinLabels, n), loss \in PassLoss :
          LET matches == Cardinality({i \in 1 .. n : pred[i] = labels[i]})
              correct2 == RatAdd(p_correct, RatInt(matches))
              total2 == p_total + n
          IN  /\ p_correct' = correct2
              /\ p_total' = total2
              /\ p_metrics' =
                    [p_metrics EXCEPT
                       !.loss = RatAdd(@, RatMul(RatInt(loss), RatInt(n))),
                       !.acc = RatDiv(RatMul(RatInt(100), correct2), RatInt(total2))]
              /\ seen' = SeenAfter(n, accuracy_score(labels, pred), RatInt(0), RatInt(loss))
              /\ losses' = [dis |-> loss, sev |-> 0]
              /\ consumed' = consumed + n
    /\ UNCHANGED <<p_clf, p_split, cuda, p_aug, output_std, criterion, dataset_len,
                   batch_size, grad, steps, p_pc>>

\* after the loop: the division by len(loader.dataset) and the return
PassReturn ==
    /\ p_pc = "loop"
    /\ consumed = dataset_len
    /\ p_metrics' =
          IF p_clf = "entire_leaf"
          THEN [p_metrics EXCEPT
                  !.loss = RatDiv(@, RatInt(dataset_len)),
                  !.dis_acc = RatDiv(RatMul(RatInt(100), @), RatInt(dataset_len)),
                  !.sev_acc = RatDiv(RatMul(RatInt(100), @), RatInt(dataset_len))]
          ELSE [p_metrics EXCEPT !.loss = RatDiv(@, RatInt(dataset_len))]
    /\ p_pc' = "returned"
    /\ UNCHANGED <<p_clf, p_split, cuda, p_aug, output_std, criterion, dataset_len,
                   batch_size, consumed, p_correct, p_total, grad, losses, steps, seen>>

(* ----------------------------- run_training -------------------------- *)
\* lr_values = [ 0.01, 0.005, 0.001, 0.0005, 0.0001 ], in units of 0.0001
lr_values == <<100, 50, 10, 5, 1>>

\* lr=0.01 of torch.optim.SGD, lr=0.001 of torch.optim.Adam
InitialLr(optimizer) == IF optimizer = "sgd" THEN 100 ELSE 10

\* step = round(opt.epochs / 5); epochs / 5 is never a tie, so rounding to
\* nearest is Python's round
LrStep(epochs) == (2 * epochs + 5) \div 10

\* idx = min(math.floor(epoch/step), len(lr_values)), for step # 0
LrIdx(e, epochs) ==
    LET idx == e \div LrStep(epochs)
    IN  IF idx < Len(lr_values) THEN idx ELSE Len(lr_values)

\* adjust_learning_rate raises ZeroDivisionError (step = 0) or IndexError
\* (idx = len(lr_values)) instead of returning
AdjustRaises(e, o) ==
    /\ o.optimizer = "sgd"
    /\ \/ LrStep(o.epochs) = 0
       \/ LrIdx(e, o.epochs) >= Len(lr_values)

\* the learning rate adjust_learning_rate leaves in every param group
AdjustedLr(old, e, o) ==
    IF o.optimizer = "sgd" THEN lr_values[LrIdx(e, o.epochs) + 1] ELSE old

\* record = {} ... record['val_sev_acc'] = [] / record['val_acc'] = []
NewRecord(clf, o) ==
    IF clf = "entire_leaf"
    THEN [model |-> o.model, batch_size |-> o.batch_size, weight_decay |-> o.weight_decay,
          optimizer |-> o.optimizer, pretrained |-> o.pretrained,
          data_augmentation |-> o.data_augmentation, epochs |-> o.epochs,
          train_loss |-> <<>>, val_loss |-> <<>>,
          train_dis_acc |-> <<>>, val_dis_acc |-> <<>>,
          train_sev_acc |-> <<>>, val_sev_acc |-> <<>>]
    ELSE [model |-> o.model, batch_size |-> o.batch_size, weight_decay |-> o.weight_decay,
          optimizer |-> o.optimizer, pretrained |-> o.pretrained,
          data_augmentation |-> o.data_augmentation, epochs |-> o.epochs,
          train_loss |-> <<>>, val_loss |-> <<>>,
          train_acc |-> <<>>, val_acc |-> <<>>]

\* the record[...].append(...) lines of one epoch
Appended(clf, r, tm, vm) ==
    IF clf = "entire_leaf"
    THEN [r EXCEPT !.train_loss = Append(@, tm.loss),
                   !.train_dis_acc = Append(@, tm.dis_acc),
                   !.train_sev_acc = Append(@, tm.sev_acc),
                   !.val_loss = Append(@, vm.loss),
                   !.val_dis_acc = Append(@, vm.dis_acc),
                   !.val_sev_acc = Append(@, vm.sev_acc)]
    ELSE [r EXCEPT !.train_loss = Append(@, tm.loss),
                   !.train_acc = Append(@, tm.acc),
                   !.val_loss = Append(@, vm.loss),
                   !.val_acc = Append(@, vm.acc)]

\* if (curr_loss < best_loss) and epoch >= 5:
ImprovesMut(curr_loss, best, e) == curr_loss <= best /\ e >= WarmupEpochs
Improves(curr_loss, best, e) == curr_loss < best /\ e >= WarmupEpochs

NoCheckpoint == [state |-> "absent", content |-> 0]
NoMetrics == [loss |-> 0, dis_acc |-> 0, sev_acc |-> 0, acc |-> 0]
\* a file that does not exist yet; "empty" after a truncating open, "written" after
NoFile == [state |-> "absent", content |-> <<>>]

\* the strictly decreasing scenario draws its losses around best_loss: enough
\* values at or above it for ten epochs, and DecrBelow values under it
DecrLossVals == (BestLossInit - DecrBelow) .. (BestLossInit + 2 * WarmupEpochs - 1)
\* validation losses of an unconstrained run: two under best_loss, and best_loss
AnyLossVals == {BestLossInit - 2, BestLossInit - 1, BestLossInit}

\* the validation losses the next validation pass may return
ValLossInputs ==
    IF loss_env = "decreasing"
    THEN {l \in DecrLossVals :
            record.val_loss = <<>> \/ l < record.val_loss[Len(record.val_loss)]}
    ELSE AnyLossVals

\* the figures the passes return are inputs of the loop, which reads only
\* the validation loss
TrainResults == {[loss |-> 3, dis_acc |-> 80, sev_acc |-> 60, acc |-> 80]}
ValResults == {[loss |-> l, dis_acc |-> 70, sev_acc |-> 50, acc |-> 70] : l \in ValLossInputs}

\* the pass variables a call made by run_training leaves alone
PassRest == <<cuda, output_std, dataset_len, batch_size, consumed, p_metrics, p_correct,
              p_total, grad, losses, steps, seen, p_pc>>

\* train_metrics = self.train(train_loader, model, criterion_train, optimizer,
\*                            self.opt.data_augmentation)
Train ==
    /\ t_pc = "train"
    /\ p_clf' = t_clf /\ p_split' = "train"
    /\ criterion' = CriterionTrain(opt.data_augmentation)
    /\ p_aug' = opt.data_augmentation
    /\ UNCHANGED PassRest
    /\ \E m \in TrainResults : train_metrics' = m
    /\ model_state' = model_state + 1
    /\ t_pc' = "validation"
    /\ UNCHANGED <<t_clf, opt, loss_env, record, best_loss, epoch, val_metrics, lr,
                   checkpoint, logfile>>

\* val_metrics = self.validation(val_loader, model, criterion_val): it takes
\* no data_augmentation and its loop applies none
Validation ==
    /\ t_pc = "validation"
    /\ p_clf' = t_clf /\ p_split' = "validation"
    /\ criterion' = CriterionVal
    /\ p_aug' = "none"
    /\ UNCHANGED PassRest
    /\ \E m \in ValResults : val_metrics' = m
    /\ t_pc' = "adjust_lr"
    /\ UNCHANGED <<t_clf, opt, loss_env, record, best_loss, epoch, train_metrics, lr,
                   model_state, checkpoint, logfile>>

\* optimizer = adjust_learning_rate(optimizer, epoch, self.opt); an exception
\* it raises ends run_training
AdjustLearningRate ==
    /\ t_pc = "adjust_lr"
    /\ IF AdjustRaises(epoch, opt)
       THEN t_pc' = "aborted" /\ lr' = lr
       ELSE t_pc' = "record" /\ lr' = AdjustedLr(lr, epoch, opt)
    /\ UNCHANGED <<t_clf, opt, loss_env, record, best_loss, epoch, train_metrics,
                   val_metrics, model_state, checkpoint, logfile>>

\* Recording metrics, then Record best model (torch.save overwrites the .pth)
RecordEpoch ==
    /\ t_pc = "record"
    /\ record' = Appended(t_clf, record, train_metrics, val_metrics)
    /\ LET curr_loss == val_metrics.loss IN
       IF Improves(curr_loss, best_loss, epoch)
       THEN /\ best_loss' = curr_loss
            /\ checkpoint' = [state |-> "written", content |-> model_state]
       ELSE UNCHANGED <<best_loss, checkpoint>>
    /\ t_pc' = "log_open"
    /\ UNCHANGED <<t_clf, opt, loss_env, epoch, train_metrics, val_metrics, lr,
                   model_state, logfile>>

\* fp = open(..., 'wb'): the log file is created or truncated to nothing
LogOpen ==
    /\ t_pc = "log_open"
    /\ logfile' = [state |-> "empty", content |-> <<>>]
    /\ t_pc' = "log_dump"
    /\ UNCHANGED <<t_clf, opt, loss_env, record, best_loss, epoch, train_metrics,
                   val_metrics, lr, model_state, checkpoint>>

\* pickle.dump(record, fp); fp.close(); then the next epoch of range(epochs)
LogDump ==
    /\ t_pc = "log_dump"
    /\ logfile' = [state |-> "written", content |-> record]
    /\ epoch' = epoch + 1
    /\ t_pc' = IF epoch + 1 < opt.epochs THEN "train" ELSE "done"
    /\ UNCHANGED <<t_clf, opt, loss_env, record, best_loss, train_metrics, val_metrics,
                   lr, model_state, checkpoint>>

\* the process is interrupted from outside (signal, power loss) at any point
Interrupt ==
    /\ t_pc \in {"train", "validation", "adjust_lr", "record", "log_open", "log_dump"}
    /\ t_pc' = "interrupted"
    /\ UNCHANGED <<t_clf, opt, loss_env, record, best_loss, epoch, train_metrics,
                   val_metrics, lr, model_state, checkpoint, logfile>>

Opts(epochChoices, augs) ==
    [model : {"resnet50"}, batch_size : {2}, weight_decay : {0}, pretrained : {TRUE},
     optimizer : {"sgd", "adam"}, data_augmentation : augs, epochs : epochChoices]

(* ------------------------------- run_test ---------------------------- *)
\* the ascending sequence of the elements of a finite set of integers
RECURSIVE SortedSeq(_)
SortedSeq(S) == IF S = {} THEN <<>> ELSE <<SetMin(S)>> \o SortedSeq(S \ {SetMin(S)})

Range(q) == {q[i] : i \in DOMAIN q}

\* the labels argument of confusion_matrix: list(range(0,5))
CmLabelsMut(yt, yp) == SortedSeq(Range(yt) \cup Range(yp))
CmLabels(yt, yp) == [i \in 1 .. NumClasses |-> i - 1]

\* sklearn confusion_matrix(y_true, y_pred, labels): entry [i][j] counts the
\* samples of true class labels[i] predicted as labels[j]
confusion_matrix(yt, yp, labels) ==
    [i \in DOMAIN labels |->
        [j \in DOMAIN labels |->
            Cardinality({k \in DOMAIN yt : yt[k] = labels[i] /\ yp[k] = labels[j]})]]

Count(yt, yp, t, q) == Cardinality({k \in DOMAIN yt : yt[k] = t /\ yp[k] = q})
TruePos(yt, yp, c) == Count(yt, yp, c, c)
PredCount(yp, c) == Cardinality({k \in DOMAIN yp : yp[k] = c})
\* a ratio that sklearn sets to 0 when its denominator is 0
Ratio0(n, d) == IF d = 0 THEN RatInt(0) ELSE Rat(n, d)
RatMean(q) == RatDiv(RatSum(q), RatInt(Len(q)))

\* precision_score / recall_score / f1_score with average='macro': the mean
\* over the classes present in y_true or y_pred
precision_score(yt, yp) ==
    LET ls == SortedSeq(Range(yt) \cup Range(yp))
    IN  RatMean([i \in DOMAIN ls |-> Ratio0(TruePos(yt, yp, ls[i]), PredCount(yp, ls[i]))])
recall_score(yt, yp) ==
    LET ls == SortedSeq(Range(yt) \cup Range(yp))
    IN  RatMean([i \in DOMAIN ls |-> Ratio0(TruePos(yt, yp, ls[i]), PredCount(yt, ls[i]))])
f1_score(yt, yp) ==
    LET ls == SortedSeq(Range(yt) \cup Range(yp))
    IN  RatMean([i \in DOMAIN ls |->
                   Ratio0(2 * TruePos(yt, yp, ls[i]),
                          PredCount(yp, ls[i]) + PredCount(yt, ls[i]))])

\* '%.2f' % (x*100): the percentage rounded to hundredths
Fmt2(x) == LET y == RatMul(x, RatInt(10000)) IN Rat((2 * y[1] + y[2]) \div (2 * y[2]), 100)

\* '%.2f,%.2f,%.2f,%.2f\n' % (acc*100, pr*100, re*100, fs*100)
ResultRow(yt, yp) ==
    [acc |-> Fmt2(accuracy_score(yt, yp)), prec |-> Fmt2(precision_score(yt, yp)),
     rec |-> Fmt2(recall_score(yt, yp)), fs |-> Fmt2(f1_score(yt, yp))]
HeaderLine == [line |-> "acc,prec,rec,fs"]

\* f = open(..., 'a'); f.write(...); f.close(): the lines go after the
\* content the file already has
AppendModeMut(content, lines) == lines
AppendMode(content, lines) == content \o lines

\* labels and predictions the test split and the model provide
TestLabels == {0, 1, 2}

\* torch.load of the checkpoint, then model.cuda(); either may raise
TestLoad ==
    /\ r_pc = "start"
    /\ r_pc' = IF checkpoint.state = "written" /\ cuda THEN "loop" ELSE "aborted"
    /\ UNCHANGED <<r_clf, test_len, y_true_dis, y_pred_dis, y_true_sev, y_pred_sev,
                   cm_dis, cm_sev, results, calls>>

\* one iteration over test_loader: predictions and labels are concatenated
TestBatch ==
    /\ r_pc = "loop"
    /\ Len(y_true_dis) < test_len
    /\ \E label_dis, pred_dis \in TestLabels :
          /\ y_pred_dis' = Append(y_pred_dis, pred_dis)
          /\ y_true_dis' = Append(y_true_dis, label_dis)
    /\ IF r_clf = "entire_leaf"
       THEN \E label_sev, pred_sev \in TestLabels :
               /\ y_pred_sev' = Append(y_pred_sev, pred_sev)
               /\ y_true_sev' = Append(y_true_sev, label_sev)
       ELSE UNCHANGED <<y_pred_sev, y_true_sev>>
    /\ UNCHANGED <<r_clf, test_len, cm_dis, cm_sev, results, r_pc, calls>>

\* after the loop: metrics, the rows appended to the results file, and the
\* confusion matrix of every head
TestReport ==
    /\ r_pc = "loop"
    /\ Len(y_true_dis) = test_len
    /\ cm_dis' = confusion_matrix(y_true_dis, y_pred_dis, CmLabels(y_true_dis, y_pred_dis))
    /\ IF r_clf = "entire_leaf"
       THEN /\ cm_sev' = confusion_matrix(y_true_sev, y_pred_sev,
                                          CmLabels(y_true_sev, y_pred_sev))
            /\ results' = AppendMode(results,
                                      <<HeaderLine, ResultRow(y_true_dis, y_pred_dis),
                                        ResultRow(y_true_sev, y_pred_sev)>>)
       ELSE /\ cm_sev' = cm_sev
            /\ results' = AppendMode(results,
                                      <<HeaderLine, ResultRow(y_true_dis, y_pred_dis)>>)
    /\ r_pc' = "done" /\ calls' = calls + 1
    /\ UNCHANGED <<r_clf, test_len, y_true_dis, y_pred_dis, y_true_sev, y_pred_sev>>

\* the next call of run_test on the same output_filename: its local arrays
\* start empty, the results file is the one the earlier calls left
RunTestAgain ==
    /\ r_pc = "done"
    /\ calls < MaxCalls
    /\ r_pc' = "start"
    /\ y_true_dis' = <<>> /\ y_pred_dis' = <<>>
    /\ y_true_sev' = <<>> /\ y_pred_sev' = <<>>
    /\ UNCHANGED <<r_clf, test_len, cm_dis, cm_sev, results, calls>>

(* -------------------------- specifications ---------------------------- *)
\* the components not exercised by a specification stay idle

vars == <<samplerVars, metricVars, passVars, trainVars, testVars>>

NextSampler == Sampler

InitSampler ==
    /\ select_classifier \in {1, 2}
    /\ IF select_classifier = 1
       THEN /\ data \in SeqsUpTo(Rows, MaxData) \cup SeqsOfLen(ScenarioRows, MaxData + 1)
            /\ samples = <<>>
       ELSE data = <<>> /\ samples \in SeqsUpTo(Classes, MaxData + 1) \cup {Scenario9010}
    /\ samplesWeight = <<>>
    /\ num_samples = 0
    /\ y_pred = <<>> /\ y_true = <<>> /\ y2_true = None /\ lam = None
    /\ acc_out = NotCalled
    /\ p_clf = "entire_leaf" /\ p_split = "train" /\ cuda = TRUE /\ p_aug = "none"
    /\ output_std = "multitask" /\ criterion = "CrossEntropyLoss"
    /\ dataset_len = 0 /\ batch_size = 1 /\ consumed = 0
    /\ p_metrics = ZeroMetrics /\ p_correct = RatInt(0) /\ p_total = 0
    /\ grad = {} /\ losses = NoLosses /\ steps = 0 /\ seen = ZeroSeen /\ p_pc = "idle"
    /\ t_clf = "entire_leaf" /\ opt = [optimizer |-> "sgd"] /\ loss_env = "any"
    /\ record = <<>> /\ best_loss = BestLossInit /\ epoch = 0
    /\ train_metrics = NoMetrics /\ val_metrics = NoMetrics /\ lr = 0
    /\ model_state = 0 /\ checkpoint = NoCheckpoint /\ logfile = NoFile /\ t_pc = "idle"
    /\ r_clf = "entire_leaf" /\ test_len = 0
    /\ y_true_dis = <<>> /\ y_pred_dis = <<>> /\ y_true_sev = <<>> /\ y_pred_sev = <<>>
    /\ cm_dis = <<>> /\ cm_sev = <<>> /\ results = <<>> /\ r_pc = "idle"
    /\ calls = 0

SpecSampler == InitSampler /\ [][NextSampler]_vars

NextMetrics == EvalMetrics /\ UNCHANGED <<samplerVars, passVars, trainVars, testVars>>

InitMetrics ==
    /\ \E n \in 1 .. MaxVec :
          /\ y_pred \in SeqsOfLen(LabelVals, n)
          /\ y_true \in SeqsOfLen(LabelVals, n)
          /\ y2_true \in SeqsOfLen(LabelVals, n) \cup {None}
    /\ lam \in IF y2_true = None THEN {None} ELSE Lams
    /\ acc_out = NotCalled
    /\ select_classifier = 1 /\ data = <<>> /\ samples = <<>>
    /\ samplesWeight = <<>> /\ num_samples = 0
    /\ p_clf = "entire_leaf" /\ p_split = "train" /\ cuda = TRUE /\ p_aug = "none"
    /\ output_std = "multitask" /\ criterion = "CrossEntropyLoss"
    /\ dataset_len = 0 /\ batch_size = 1 /\ consumed = 0
    /\ p_metrics = ZeroMetrics /\ p_correct = RatInt(0) /\ p_total = 0
    /\ grad = {} /\ losses = NoLosses /\ steps = 0 /\ seen = ZeroSeen /\ p_pc = "idle"
    /\ t_clf = "entire_leaf" /\ opt = [optimizer |-> "sgd"] /\ loss_env = "any"
    /\ record = <<>> /\ best_loss = BestLossInit /\ epoch = 0
    /\ train_metrics = NoMetrics /\ val_metrics = NoMetrics /\ lr = 0
    /\ model_state = 0 /\ checkpoint = NoCheckpoint /\ logfile = NoFile /\ t_pc = "idle"
    /\ r_clf = "entire_leaf" /\ test_len = 0
    /\ y_true_dis = <<>> /\ y_pred_dis = <<>> /\ y_true_sev = <<>> /\ y_pred_sev = <<>>
    /\ cm_dis = <<>> /\ cm_sev = <<>> /\ results = <<>> /\ r_pc = "idle"
    /\ calls = 0

SpecMetrics == InitMetrics /\ [][NextMetrics]_vars

InitPass ==
    /\ p_clf \in {"entire_leaf", "lesion_spot"}
    /\ p_split \in {"train", "validation"}
    /\ cuda \in BOOLEAN
    /\ p_aug \in IF p_split = "train" THEN {"none", "bc+", "mixup"} ELSE {"none"}
    /\ output_std \in IF p_clf = "entire_leaf"
                      THEN {"multitask", "disease", "severity"} ELSE {"disease"}
    /\ criterion = IF p_split = "train" THEN CriterionTrain(p_aug) ELSE CriterionVal
    /\ dataset_len \in 1 .. MaxDataset
    /\ batch_size \in BatchSizes
    /\ consumed = 0
    /\ p_metrics = ZeroMetrics /\ p_correct = RatInt(0) /\ p_total = 0
    /\ grad = {} /\ losses = NoLosses /\ steps = 0 /\ seen = ZeroSeen /\ p_pc = "loop"
    /\ select_classifier = 1 /\ data = <<>> /\ samples = <<>>
    /\ samplesWeight = <<>> /\ num_samples = 0
    /\ y_pred = <<>> /\ y_true = <<>> /\ y2_true = None /\ lam = None
    /\ acc_out = NotCalled
    /\ t_clf = "entire_leaf" /\ opt = [optimizer |-> "sgd"] /\ loss_env = "any"
    /\ record = <<>> /\ best_loss = BestLossInit /\ epoch = 0
    /\ train_metrics = NoMetrics /\ val_metrics = NoMetrics /\ lr = 0
    /\ model_state = 0 /\ checkpoint = NoCheckpoint /\ logfile = NoFile /\ t_pc = "idle"
    /\ r_clf = "entire_leaf" /\ test_len = 0
    /\ y_true_dis = <<>> /\ y_pred_dis = <<>> /\ y_true_sev = <<>> /\ y_pred_sev = <<>>
    /\ cm_dis = <<>> /\ cm_sev = <<>> /\ results = <<>> /\ r_pc = "idle"
    /\ calls = 0

NextPass ==
    \/ ELTrainStep /\ UNCHANGED <<samplerVars, metricVars, trainVars, testVars>>
    \/ ELValStep /\ UNCHANGED <<samplerVars, metricVars, trainVars, testVars>>
    \/ LSTrainStep /\ UNCHANGED <<samplerVars, metricVars, trainVars, testVars>>
    \/ LSValStep /\ UNCHANGED <<samplerVars, metricVars, trainVars, testVars>>
    \/ PassReturn /\ UNCHANGED <<samplerVars, metricVars, trainVars, testVars>>

SpecPass == InitPass /\ [][NextPass]_vars

\* run_training up to the first epoch: any epoch count, any validation losses
InitTraining ==
    /\ t_clf \in {"entire_leaf", "lesion_spot"}
    /\ opt \in Opts(1 .. MaxEpochs, {"none", "bc+", "mixup"})
    /\ loss_env = "any"
    /\ record = NewRecord(t_clf, opt)
    /\ best_loss = BestLossInit
    /\ epoch = 0
    /\ train_metrics = NoMetrics /\ val_metrics = NoMetrics
    /\ lr = InitialLr(opt.optimizer)
    /\ model_state = 0 /\ checkpoint = NoCheckpoint /\ logfile = NoFile
    /\ t_pc = "train"
    /\ select_classifier = 1 /\ data = <<>> /\ samples = <<>>
    /\ samplesWeight = <<>> /\ num_samples = 0
    /\ y_pred = <<>> /\ y_true = <<>> /\ y2_true = None /\ lam = None
    /\ acc_out = NotCalled
    /\ p_clf = "entire_leaf" /\ p_split = "train" /\ cuda = TRUE /\ p_aug = "none"
    /\ output_std = "multitask" /\ criterion = "CrossEntropyLoss"
    /\ dataset_len = 0 /\ batch_size = 1 /\ consumed = 0
    /\ p_metrics = ZeroMetrics /\ p_correct = RatInt(0) /\ p_total = 0
    /\ grad = {} /\ losses = NoLosses /\ steps = 0 /\ seen = ZeroSeen /\ p_pc = "idle"
    /\ r_clf = "entire_leaf" /\ test_len = 0
    /\ y_true_dis = <<>> /\ y_pred_dis = <<>> /\ y_true_sev = <<>> /\ y_pred_sev = <<>>
    /\ cm_dis = <<>> /\ cm_sev = <<>> /\ results = <<>> /\ r_pc = "idle"
    /\ calls = 0

\* the same for the scenario of ten epochs (0..9) of strictly decreasing
\* validation loss
InitWarmup ==
    /\ t_clf \in {"entire_leaf", "lesion_spot"}
    /\ opt \in Opts({2 * WarmupEpochs}, {"none"})
    /\ loss_env = "decreasing"
    /\ record = NewRecord(t_clf, opt)
    /\ best_loss = BestLossInit
    /\ epoch = 0
    /\ train_metrics = NoMetrics /\ val_metrics = NoMetrics
    /\ lr = InitialLr(opt.optimizer)
    /\ model_state = 0 /\ checkpoint = NoCheckpoint /\ logfile = NoFile
    /\ t_pc = "train"
    /\ select_classifier = 1 /\ data = <<>> /\ samples = <<>>
    /\ samplesWeight = <<>> /\ num_samples = 0
    /\ y_pred = <<>> /\ y_true = <<>> /\ y2_true = None /\ lam = None
    /\ acc_out = NotCalled
    /\ p_clf = "entire_leaf" /\ p_split = "train" /\ cuda = TRUE /\ p_aug = "none"
    /\ output_std = "multitask" /\ criterion = "CrossEntropyLoss"
    /\ dataset_len = 0 /\ batch_size = 1 /\ consumed = 0
    /\ p_metrics = ZeroMetrics /\ p_correct = RatInt(0) /\ p_total = 0
    /\ grad = {} /\ losses = NoLosses /\ steps = 0 /\ seen = ZeroSeen /\ p_pc = "idle"
    /\ r_clf = "entire_leaf" /\ test_len = 0
    /\ y_true_dis = <<>> /\ y_pred_dis = <<>> /\ y_true_sev = <<>> /\ y_pred_sev = <<>>
    /\ cm_dis = <<>> /\ cm_sev = <<>> /\ results = <<>> /\ r_pc = "idle"
    /\ calls = 0

NextTraining ==
    \/ Train /\ UNCHANGED <<samplerVars, metricVars, testVars>>
    \/ Validation /\ UNCHANGED <<samplerVars, metricVars, testVars>>
    \/ AdjustLearningRate /\ UNCHANGED <<samplerVars, metricVars, passVars, testVars>>
    \/ RecordEpoch /\ UNCHANGED <<samplerVars, metricVars, passVars, testVars>>
    \/ LogOpen /\ UNCHANGED <<samplerVars, metricVars, passVars, testVars>>
    \/ LogDump /\ UNCHANGED <<samplerVars, metricVars, passVars, testVars>>

NextInterruptible ==
    \/ NextTraining
    \/ Interrupt /\ UNCHANGED <<samplerVars, metricVars, passVars, testVars>>

SpecTraining == InitTraining /\ [][NextTraining]_vars
SpecWarmup == InitWarmup /\ [][NextTraining]_vars
SpecInterrupt == InitTraining /\ [][NextInterruptible]_vars

\* run_test on a test split of 1..MaxTest samples, with or without an
\* accelerator and a checkpoint file
InitTest ==
    /\ r_clf \in {"entire_leaf", "lesion_spot"}
    /\ test_len \in 1 .. MaxTest
    /\ y_true_dis = <<>> /\ y_pred_dis = <<>> /\ y_true_sev = <<>> /\ y_pred_sev = <<>>
    /\ cm_dis = <<>> /\ cm_sev = <<>> /\ results = <<>>
    /\ r_pc = "start" /\ calls = 0
    /\ cuda \in BOOLEAN
    /\ checkpoint \in {NoCheckpoint, [state |-> "written", content |-> WarmupEpochs + 1]}
    /\ p_clf = "entire_leaf" /\ p_split = "train" /\ p_aug = "none"
    /\ output_std = "multitask" /\ criterion = "CrossEntropyLoss"
    /\ dataset_len = 0 /\ batch_size = 1 /\ consumed = 0
    /\ p_metrics = ZeroMetrics /\ p_correct = RatInt(0) /\ p_total = 0
    /\ grad = {} /\ losses = NoLosses /\ steps = 0 /\ seen = ZeroSeen /\ p_pc = "idle"
    /\ t_clf = "entire_leaf" /\ opt = [optimizer |-> "sgd"] /\ loss_env = "any"
    /\ record = <<>> /\ best_loss = BestLossInit /\ epoch = 0
    /\ train_metrics = NoMetrics /\ val_metrics = NoMetrics /\ lr = 0
    /\ model_state = 0 /\ logfile = NoFile /\ t_pc = "idle"
    /\ select_classifier = 1 /\ data = <<>> /\ samples = <<>>
    /\ samplesWeight = <<>> /\ num_samples = 0
    /\ y_pred = <<>> /\ y_true = <<>> /\ y2_true = None /\ lam = None
    /\ acc_out = NotCalled

NextTest ==
    \/ TestLoad /\ UNCHANGED <<samplerVars, metricVars, passVars, trainVars>>
    \/ TestBatch /\ UNCHANGED <<samplerVars, metricVars, passVars, trainVars>>
    \/ TestReport /\ UNCHANGED <<samplerVars, metricVars, passVars, trainVars>>

SpecTest == InitTest /\ [][NextTest]_vars

\* up to MaxCalls successive calls of run_test, each on a one-sample test
\* split, with an accelerator and a checkpoint present
InitRetest ==
    /\ r_clf \in {"entire_leaf", "lesion_spot"}
    /\ test_len = 1
    /\ y_true_dis = <<>> /\ y_pred_dis = <<>> /\ y_true_sev = <<>> /\ y_pred_sev = <<>>
    /\ cm_dis = <<>> /\ cm_sev = <<>> /\ results = <<>>
    /\ r_pc = "start" /\ calls = 0
    /\ cuda = TRUE
    /\ checkpoint = [state |-> "written", content |-> WarmupEpochs + 1]
    /\ p_clf = "entire_leaf" /\ p_split = "train" /\ p_aug = "none"
    /\ output_std = "multitask" /\ criterion = "CrossEntropyLoss"
    /\ dataset_len = 0 /\ batch_size = 1 /\ consumed = 0
    /\ p_metrics = ZeroMetrics /\ p_correct = RatInt(0) /\ p_total = 0
    /\ grad = {} /\ losses = NoLosses /\ steps = 0 /\ seen = ZeroSeen /\ p_pc = "idle"
    /\ t_clf = "entire_leaf" /\ opt = [optimizer |-> "sgd"] /\ loss_env = "any"
    /\ record = <<>> /\ best_loss = BestLossInit /\ epoch = 0
    /\ train_metrics = NoMetrics /\ val_metrics = NoMetrics /\ lr = 0
    /\ model_state = 0 /\ logfile = NoFile /\ t_pc = "idle"
    /\ select_classifier = 1 /\ data = <<>> /\ samples = <<>>
    /\ samplesWeight = <<>> /\ num_samples = 0
    /\ y_pred = <<>> /\ y_true = <<>> /\ y2_true = None /\ lam = None
    /\ acc_out = NotCalled

NextRetest ==
    \/ TestLoad /\ UNCHANGED <<samplerVars, metricVars, passVars, trainVars>>
    \/ TestBatch /\ UNCHANGED <<samplerVars, metricVars, passVars, trainVars>>
    \/ TestReport /\ UNCHANGED <<samplerVars, metricVars, passVars, trainVars>>
    \/ RunTestAgain /\ UNCHANGED <<samplerVars, metricVars, passVars, trainVars>>

SpecRetest == InitRetest /\ [][NextRetest]_vars


(* --------------------------- sampler claims --------------------------- *)
SamplerDone == samplesWeight # <<>>
DatasetLen == IF select_classifier = 1 THEN Len(data) ELSE Len(samples)
\* the class (single-label) or (disease, severity) cell (joint) of example i
CellOf(i) == IF select_classifier = 1 THEN <<data[i].dis, data[i].sev>> ELSE <<samples[i]>>
CellCount(i) == Cardinality({j \in 1 .. DatasetLen : CellOf(j) = CellOf(i)})

\* C5: for a non-empty dataset, in both modes, the weight vector handed to the
\* weighted sampler has one entry per example, every entry is non-negative and
\* the entries sum to 1.
C5_WeightsNormalized ==
    SamplerDone =>
        /\ Len(samplesWeight) = DatasetLen
        /\ num_samples = DatasetLen
        /\ \A i \in DOMAIN samplesWeight : RatNonNeg(samplesWeight[i])
        /\ RatEq(RatSum(samplesWeight), RatInt(1))

\* a joint dataset with two differently populated cells has been weighted
C5_Witness ==
    /\ SamplerDone
    /\ select_classifier = 1
    /\ \E i, j \in DOMAIN data : CellOf(i) # CellOf(j)

\* C6: every example whose class or (disease, severity) cell occurs in the
\* dataset (that is, every example) has a strictly positive weight; none is
\* left at the initial 0.
C6_WeightsPositive ==
    SamplerDone => \A i \in DOMAIN samplesWeight : RatPos(samplesWeight[i])

\* the last cell of the 5x5 grid (disease 4, severity 4) is observed and weighted
C6_Witness ==
    /\ SamplerDone
    /\ select_classifier = 1
    /\ \E i \in DOMAIN data : data[i].dis = NumClasses - 1 /\ data[i].sev = NumClasses - 1

\* C7: in single-label mode weight x class count is the same for every
\* example (weight proportional to 1/n, equal total mass per observed class),
\* and in the 90/10 scenario a minority example weighs 9 times a majority one.
C7_InverseFrequency ==
    (SamplerDone /\ select_classifier # 1) =>
        /\ \A i, j \in DOMAIN samplesWeight :
              RatEq(RatMul(samplesWeight[i], RatInt(CellCount(i))),
                    RatMul(samplesWeight[j], RatInt(CellCount(j))))
        /\ samples = Scenario9010 =>
              RatEq(samplesWeight[100], RatMul(RatInt(9), samplesWeight[1]))

\* the 90/10 scenario has been weighted
C7_Witness ==
    /\ SamplerDone
    /\ select_classifier # 1
    /\ samples = Scenario9010

(* ------------------------- eval_metrics claims ------------------------ *)
\* C8: mixup accuracy combination law: the accuracy returned for (pred, a, b,
\* lam) is lam * accuracy(pred, a) + (1 - lam) * accuracy(pred, b); with
\* lam = 1 it is the accuracy against a, with lam = 0 the accuracy against b.
C8_MixupAccuracyLaw ==
    (acc_out # NotCalled /\ y2_true # None) =>
        LET accA == eval_metrics("acc", y_pred, y_true, None, None)
            accB == eval_metrics("acc", y_pred, y2_true, None, None)
        IN  /\ RatEq(acc_out,
                     RatAdd(RatMul(lam, accA), RatMul(RatSub(RatInt(1), lam), accB)))
            /\ RatEq(lam, RatInt(1)) => RatEq(acc_out, accA)
            /\ RatEq(lam, RatInt(0)) => RatEq(acc_out, accB)

\* a mixup call with 0 < lam < 1 whose two label sides score differently
C8_Witness ==
    /\ acc_out # NotCalled
    /\ y2_true # None
    /\ RatLt(RatInt(0), lam) /\ RatLt(lam, RatInt(1))
    /\ ~RatEq(accuracy_score(y_true, y_pred), accuracy_score(y2_true, y_pred))

(* --------------------------- epoch-pass claims ------------------------ *)
\* the accuracy figures a pass returns, by classifier
ReturnedAccs ==
    IF p_clf = "entire_leaf"
    THEN <<<<p_metrics.dis_acc, seen.accN_dis, seen.acc_dis>>,
           <<p_metrics.sev_acc, seen.accN_sev, seen.acc_sev>>>>
    ELSE <<<<p_metrics.acc, seen.accN_dis, seen.acc_dis>>>>
AllBatchesEqual == dataset_len % batch_size = 0

\* C9: on an accelerator or on the host, the accuracy a pass returns is
\* 100 x (sum of batch accuracy x batch size) / dataset size and the loss is
\* (sum of batch loss x batch size) / dataset size; with equal-size batches
\* these are the unweighted means of the per-batch values.
C9_SizeCorrectedAverage ==
    p_pc = "returned" =>
        /\ \A k \in DOMAIN ReturnedAccs :
              /\ RatEq(ReturnedAccs[k][1],
                       RatDiv(RatMul(RatInt(100), ReturnedAccs[k][2]), RatInt(dataset_len)))
              /\ AllBatchesEqual =>
                    RatEq(ReturnedAccs[k][1],
                          RatDiv(RatMul(RatInt(100), ReturnedAccs[k][3]), RatInt(seen.nb)))
        /\ RatEq(p_metrics.loss, RatDiv(seen.lossN, RatInt(dataset_len)))
        /\ AllBatchesEqual => RatEq(p_metrics.loss, RatDiv(seen.loss, RatInt(seen.nb)))

\* the same on an accelerator only
C9_OnAccelerator == cuda => C9_SizeCorrectedAverage

(* -------------------------- run_training claims ----------------------- *)
\* epochs whose metrics are recorded and whose checkpoint test has run
Recorded == Len(record.val_loss)
\* the (1-based) epoch of lo..hi with the lowest validation loss, earliest on ties
BestIdx(vl, lo, hi) ==
    CHOOSE i \in lo .. hi :
        \A j \in lo .. hi : vl[i] < vl[j] \/ (vl[i] = vl[j] /\ i <= j)
StrictlyDecreasing(vl) == \A i \in 1 .. (Len(vl) - 1) : vl[i] > vl[i + 1]
\* the model saved at 0-based epoch e has been through e + 1 training passes
CheckpointEpoch == checkpoint.content - 1

\* C1: no checkpoint write occurs at an epoch index below 5, and for a
\* strictly decreasing validation-loss sequence over epochs 0..9 the final
\* checkpoint write is made by the epoch with the minimum loss among epochs
\* >= 5 (epoch 9).
C1_WarmupCheckpoint ==
    /\ checkpoint.state = "written" => CheckpointEpoch >= WarmupEpochs
    /\ (t_pc = "done" /\ StrictlyDecreasing(record.val_loss)) =>
          /\ checkpoint.state = "written"
          /\ CheckpointEpoch + 1 = BestIdx(record.val_loss, WarmupEpochs + 1, Recorded)

\* what holds of the code: the same when the last loss is below best_loss = 1000
C1_BelowBestLoss ==
    /\ checkpoint.state = "written" => CheckpointEpoch >= WarmupEpochs
    /\ (t_pc = "done" /\ StrictlyDecreasing(record.val_loss)
          /\ record.val_loss[Recorded] < BestLossInit) =>
          /\ checkpoint.state = "written"
          /\ CheckpointEpoch + 1 = BestIdx(record.val_loss, WarmupEpochs + 1, Recorded)

\* C2: keep-best: when all validation losses are below 1000, after every
\* completed epoch e >= 5 the checkpoint holds the model of the epoch in 5..e
\* with the lowest validation loss (the earliest on ties), best_loss is that
\* epoch's loss, and best_loss never increases.
C2_KeepBest ==
    /\ [](LET vl == record.val_loss IN
            (Recorded > WarmupEpochs /\ \A i \in DOMAIN vl : vl[i] < BestLossInit) =>
               /\ checkpoint.state = "written"
               /\ checkpoint.content = BestIdx(vl, WarmupEpochs + 1, Recorded)
               /\ best_loss = vl[BestIdx(vl, WarmupEpochs + 1, Recorded)])
    /\ [][best_loss' <= best_loss]_vars

\* epochs 5 and 6 tie below 1000 and the checkpoint still is epoch 5's model
C2_Witness ==
    /\ Recorded >= WarmupEpochs + 2
    /\ \A i \in DOMAIN record.val_loss : record.val_loss[i] < BestLossInit
    /\ record.val_loss[WarmupEpochs + 2] = record.val_loss[WarmupEpochs + 1]
    /\ checkpoint.content = WarmupEpochs + 1

\* C3: for every epoch count E >= 1 and both optimizers, run_training runs E
\* epochs, each through train -> validation -> adjust_learning_rate ->
\* record/checkpoint/log in that order, and then stops; no epoch aborts
\* before its log is written.
C3_EveryEpochCompletes ==
    /\ [][/\ t_pc = "train" => t_pc' = "validation"
          /\ t_pc = "validation" => t_pc' = "adjust_lr"
          /\ t_pc = "adjust_lr" => t_pc' = "record"
          /\ t_pc = "record" => t_pc' = "log_open"
          /\ t_pc = "log_open" => t_pc' = "log_dump"
          /\ t_pc = "log_dump" => /\ t_pc' = (IF epoch' < opt.epochs THEN "train" ELSE "done")
                                  /\ epoch' = epoch + 1]_vars
    /\ [](t_pc = "done" => epoch = opt.epochs /\ Recorded = opt.epochs)

\* what holds of the code: the same for the runs adjust_learning_rate lets through
C3_UnlessAdjustRaises ==
    /\ [][/\ t_pc = "train" => t_pc' = "validation"
          /\ t_pc = "validation" => t_pc' = "adjust_lr"
          /\ t_pc = "adjust_lr" => t_pc' = (IF AdjustRaises(epoch, opt) THEN "aborted" ELSE "record")
          /\ t_pc = "record" => t_pc' = "log_open"
          /\ t_pc = "log_open" => t_pc' = "log_dump"
          /\ t_pc = "log_dump" => /\ t_pc' = (IF epoch' < opt.epochs THEN "train" ELSE "done")
                                  /\ epoch' = epoch + 1]_vars
    /\ [](t_pc = "done" => epoch = opt.epochs /\ Recorded = opt.epochs)

\* the per-epoch sequences of a record, and a record without its last epoch
Series(r) ==
    IF t_clf = "entire_leaf"
    THEN <<r.train_loss, r.val_loss, r.train_dis_acc, r.val_dis_acc,
           r.train_sev_acc, r.val_sev_acc>>
    ELSE <<r.train_loss, r.val_loss, r.train_acc, r.val_acc>>
Front(q) == SubSeq(q, 1, Len(q) - 1)
Fronts(qs) == [i \in DOMAIN qs |-> Front(qs[i])]
SameHyper(r) ==
    /\ r.model = opt.model /\ r.batch_size = opt.batch_size
    /\ r.weight_decay = opt.weight_decay /\ r.optimizer = opt.optimizer
    /\ r.pretrained = opt.pretrained /\ r.data_augmentation = opt.data_augmentation
    /\ r.epochs = opt.epochs
\* the log file holds a full record with k entries in every sequence
LogHolds(k) ==
    /\ logfile.state = "written"
    /\ SameHyper(logfile.content)
    /\ \A i \in DOMAIN Series(logfile.content) : Len(Series(logfile.content)[i]) = k

\* C4: after the k-th epoch the log file holds the full record, hyperparameters
\* unchanged, with k entries in every metric sequence, the first k-1 as
\* persisted after the previous epoch; so an interruption during epoch k
\* loses only epoch k's figures.
C4_IncrementalLog ==
    /\ (epoch >= 1 /\ t_pc \in {"train", "validation", "adjust_lr", "record", "done"}) =>
          LogHolds(epoch) /\ logfile.content = record
    /\ (epoch >= 1 /\ t_pc = "log_open") =>
          LogHolds(epoch) /\ Series(logfile.content) = Fronts(Series(record))
    /\ (epoch >= 1 /\ t_pc = "interrupted") =>
          \/ LogHolds(epoch)
          \/ LogHolds(epoch + 1)

\* what holds of the code: the same without the interruption clause
C4_AfterEachEpoch ==
    /\ (epoch >= 1 /\ t_pc \in {"train", "validation", "adjust_lr", "record", "done"}) =>
          LogHolds(epoch) /\ logfile.content = record
    /\ (epoch >= 1 /\ t_pc = "log_open") =>
          LogHolds(epoch) /\ Series(logfile.content) = Fronts(Series(record))

(* ----------------------------- run_test claims ------------------------ *)
\* the confusion matrices run_test built, with the labels they were built from
BuiltMatrices ==
    IF r_clf = "entire_leaf"
    THEN <<<<cm_dis, y_true_dis, y_pred_dis>>, <<cm_sev, y_true_sev, y_pred_sev>>>>
    ELSE <<<<cm_dis, y_true_dis, y_pred_dis>>>>
IsSquare5(cm) ==
    /\ DOMAIN cm = 1 .. NumClasses
    /\ \A i \in DOMAIN cm : DOMAIN cm[i] = 1 .. NumClasses
\* row / column of class c (index c + 1) is all zero
RowZero(cm, c) == \A j \in DOMAIN cm[c + 1] : cm[c + 1][j] = 0
ColZero(cm, c) == \A i \in DOMAIN cm : cm[i][c + 1] = 0
Absent == {1, 3, 4}
OnlyZeroTwo(yt) == Range(yt) \subseteq {0, 2}

\* C10 as stated: every head's confusion matrix is 5 x 5 over classes 0..4, and
\* when the test labels are only from {0,2} the rows and the columns of
\* classes 1, 3 and 4 are all zero.
C10_RowsAndColumnsZero ==
    r_pc = "done" =>
        \A h \in DOMAIN BuiltMatrices :
            LET cm == BuiltMatrices[h][1]
                yt == BuiltMatrices[h][2]
            IN  /\ IsSquare5(cm)
                /\ OnlyZeroTwo(yt) => \A c \in Absent : RowZero(cm, c) /\ ColZero(cm, c)

\* C10 as amended: every head's confusion matrix is 5 x 5 over classes 0..4, and
\* when the test labels are only from {0,2} the rows of classes 1, 3 and 4
\* are all zero, and the column of such a class is all zero exactly when the
\* model never predicts it.
C10_ConfusionMatrixComplete ==
    r_pc = "done" =>
        \A h \in DOMAIN BuiltMatrices :
            LET cm == BuiltMatrices[h][1]
                yt == BuiltMatrices[h][2]
                yp == BuiltMatrices[h][3]
            IN  /\ IsSquare5(cm)
                /\ OnlyZeroTwo(yt) =>
                      \A c \in Absent : /\ RowZero(cm, c)
                                         /\ ColZero(cm, c) <=> c \notin Range(yp)

\* a test split labelled 0 and 2 only, on which the model predicts class 1 once
C10_Witness ==
    /\ r_pc = "done"
    /\ Range(y_true_dis) = {0, 2}
    /\ 1 \in Range(y_pred_dis)
    /\ ~ColZero(cm_dis, 1) /\ RowZero(cm_dis, 1)

(* ------------------------ results file claims ------------------------- *)
\* lines one call of run_test writes: the header and one row per task head
BlockLen == IF r_clf = "entire_leaf" THEN 3 ELSE 2
IsRow(l) == DOMAIN l = {"acc", "prec", "rec", "fs"}
\* the b-th block of the results file
Block(b) == SubSeq(results, (b - 1) * BlockLen + 1, b * BlockLen)
\* the block the call that has just returned computed from its arrays
LastBlock ==
    IF r_clf = "entire_leaf"
    THEN <<HeaderLine, ResultRow(y_true_dis, y_pred_dis), ResultRow(y_true_sev, y_pred_sev)>>
    ELSE <<HeaderLine, ResultRow(y_true_dis, y_pred_dis)>>
IsPrefix(q, r) == Len(q) <= Len(r) /\ SubSeq(r, 1, Len(q)) = q

\* C11: every step of run_test leaves the lines the results file already has
\* in place; after k returned calls the file is k blocks, each the header
\* line 'acc,prec,rec,fs' followed by one row per task head (two for the
\* entire-leaf classifier, one for the lesion-spot classifier), and the last
\* block is the one of the call that has just returned
C11_ResultsAppended ==
    /\ [](/\ Len(results) = calls * BlockLen
          /\ \A b \in 1 .. calls :
                /\ Block(b)[1] = HeaderLine
                /\ \A i \in 2 .. BlockLen : IsRow(Block(b)[i])
          /\ (r_pc = "done" => Block(calls) = LastBlock))
    /\ [][IsPrefix(results, results')]_vars

\* two calls of the entire-leaf run_test have returned, with different
\* disease rows
C11_Witness ==
    /\ r_clf = "entire_leaf"
    /\ r_pc = "done"
    /\ calls = 2
    /\ Len(results) = 6
    /\ results[2] # results[5]

(* --------------------------- gradient claims -------------------------- *)
\* the task heads output_std selects
SelectedHeads ==
    CASE output_std = "multitask" -> {"dis", "sev"}
      [] output_std = "disease" -> {"dis"}
      [] output_std = "severity" -> {"sev"}

\* C12: after every training step of EntireLeafClf.train both heads' losses
\* have been computed, and the gradients hold the losses of exactly the heads
\* output_std selects (both for 'multitask', the disease loss for 'disease',
\* the severity loss for 'severity'), of this step only: nothing of an
\* earlier step is carried over
C12_GradientRouting ==
    (p_clf = "entire_leaf" /\ p_split = "train" /\ steps > 0) =>
        /\ losses.dis \in PassLoss /\ losses.sev \in PassLoss
        /\ grad = {<<h, steps>> : h \in SelectedHeads}

\* the second step of a disease-only run: the severity loss was computed and
\* only the disease loss of this step is in the gradients
C12_Witness ==
    /\ p_clf = "entire_leaf" /\ p_split = "train"
    /\ output_std = "disease"
    /\ steps = 2
    /\ losses.sev \in PassLoss
    /\ grad = {<<"dis", 2>>}

(* ------------------------ joint weighting claims ---------------------- *)
\* the cells of the 5x5 grid, in visiting order, that no example lies in
EmptyCells ==
    {k \in 0 .. JointCells - 1 :
        \A i \in DOMAIN data :
            ~(data[i].dis = k \div NumClasses /\ data[i].sev = k % NumClasses)}

\* C13: in joint mode every example of a cell with n occurrences gets the
\* pre-normalization weight total / (n + 20) (and keeps that proportion after
\* normalisation), so an example of a cell with fewer examples never weighs
\* less than one of a cell with more; visiting a cell with n = 0 changes no
\* weight
C13_JointBalancedWeight ==
    (SamplerDone /\ select_classifier = 1) =>
        LET w == RawWeights(1, data, samples)
            total == Len(data)
        IN  /\ \A i \in DOMAIN data :
                  RatEq(w[i], Rat(total, CellCount(i) + 20))
            /\ \A i, j \in DOMAIN data :
                  /\ CellCount(i) <= CellCount(j) => ~RatLt(w[i], w[j])
                  /\ RatEq(RatMul(samplesWeight[i], RatInt(CellCount(i) + 20)),
                           RatMul(samplesWeight[j], RatInt(CellCount(j) + 20)))
            /\ \A k \in EmptyCells :
                  /\ JointCell(Zeros(total), data, k) = Zeros(total)
                  /\ JointCell(w, data, k) = w

\* a joint dataset with a cell of two examples and a cell of one has been
\* weighted, the single example weighing more
C13_Witness ==
    /\ SamplerDone
    /\ select_classifier = 1
    /\ \E i, j \in DOMAIN data :
          /\ CellCount(i) = 1 /\ CellCount(j) = 2
          /\ RatLt(samplesWeight[j], samplesWeight[i])

(* --------------------------- sentinel claims -------------------------- *)
\* C14: the initial best_loss is larger than every validation loss, the
\* warm-up epochs 0..4 neither update best_loss nor write a checkpoint, and in
\* a run of at least 6 epochs a checkpoint exists once epoch 5 has been
\* recorded, whatever the validation losses are
C14_EpochFiveWrites ==
    /\ \A i \in DOMAIN record.val_loss : record.val_loss[i] < BestLossInit
    /\ Recorded <= WarmupEpochs => best_loss = BestLossInit /\ checkpoint = NoCheckpoint
    /\ (opt.epochs >= WarmupEpochs + 1 /\ Recorded >= WarmupEpochs + 1) =>
          checkpoint.state = "written"

\* what holds of the code: the warm-up part, and the write at epoch 5 when
\* its validation loss is below best_loss = 1000
C14_BelowSentinel ==
    /\ Recorded <= WarmupEpochs => best_loss = BestLossInit /\ checkpoint = NoCheckpoint
    /\ (opt.epochs >= WarmupEpochs + 1 /\ Recorded >= WarmupEpochs + 1
          /\ record.val_loss[WarmupEpochs + 1] < BestLossInit) =>
          checkpoint.state = "written"

(* -------------------------- criterion claims -------------------------- *)
\* C15: in every epoch of run_training (both classifiers) the training pass
\* is called with the KL-divergence criterion exactly when data_augmentation
\* is 'bc+' and with cross-entropy otherwise, and with the configured
\* augmentation; the validation pass is called with cross-entropy and
\* applies no augmentation, whatever is configured
C15_CriterionSelection ==
    /\ t_pc = "validation" =>
          /\ p_split = "train" /\ p_clf = t_clf
          /\ (criterion = "KLDivLoss") <=> (opt.data_augmentation = "bc+")
          /\ (criterion = "CrossEntropyLoss") <=> (opt.data_augmentation # "bc+")
          /\ p_aug = opt.data_augmentation
    /\ t_pc = "adjust_lr" =>
          /\ p_split = "validation" /\ p_clf = t_clf
          /\ criterion = "CrossEntropyLoss"
          /\ p_aug = "none"

\* the validation pass of the second epoch of a bc+ run has been called
C15_Witness ==
    /\ opt.data_augmentation = "bc+"
    /\ epoch = 1
    /\ t_pc = "adjust_lr"
    /\ criterion = "CrossEntropyLoss"

(* ------------------------ learning-rate claims ------------------------ *)
\* step = round(epochs / 5) of the run
RunStep == (2 * opt.epochs + 5) \div 10
\* what C16 says of a call of adjust_learning_rate for the current epoch
ScheduleStep ==
    IF opt.optimizer = "sgd"
    THEN /\ RunStep # 0
         /\ (epoch \div RunStep) + 1 \in DOMAIN lr_values
         /\ lr' = lr_values[(epoch \div RunStep) + 1]
         /\ lr' \in {100, 50, 10, 5, 1}
         /\ lr' <= lr
    ELSE lr' = lr

\* C16: with optimizer 'sgd' every call of adjust_learning_rate for an epoch
\* e < epochs returns with the learning rate lr_values[floor(e / step)],
\* step = round(epochs / 5), one of 0.01, 0.005, 0.001, 0.0005, 0.0001 and
\* not above the rate of the epoch before; with another optimizer the call
\* leaves the learning rate unchanged
C16_LrSchedule ==
    [][t_pc = "adjust_lr" => (t_pc' = "record" /\ ScheduleStep)]_vars

\* what holds of the code: the same for the calls that return
C16_WhenItReturns ==
    [][(t_pc = "adjust_lr" /\ t_pc' = "record") => ScheduleStep]_vars
====
